---- MODULE Spec2Model ----
(***************************************************************************)
(* A model of flashcards.py: deck discovery and loading (find_decks,       *)
(* load_deck), the quiz session (class Flashcards) and the callbacks of    *)
(* the Tk user interface (class FlashcardApp).                             *)
(*                                                                         *)
(* Spec     drives one Flashcards object through its public methods in any *)
(*          order, as a caller of the class may.                           *)
(* SpecApp  drives FlashcardApp through the callbacks its buttons offer.   *)
(* SpecLoad calls load_deck on every file content of the model.            *)
(***************************************************************************)
EXTENDS Integers, Sequences, FiniteSets, TLC

\* ------------------------------------------------------------------ bounds
\* Longest card list of a deck document.
MaxCards == 3
\* next() is not called once index has reached this value.
MaxIndex == 4
\* check() is not called once score has reached this value.
MaxScore == 3
\* The pass counter stops counting here (it saturates, it blocks nothing).
MaxPasses == 2

\* ------------------------------------------------------------------- cards
Choices == <<"a", "b">>
Answers == {"a", "b"}

\* A card is a JSON object: question, choices, answer. Python compares dicts
\* by value, and so does TLA+ compare records.
MkCard(q, a) == [question |-> q, choices |-> Choices, answer |-> a]

\* The cards of the deck documents: three different cards, not all with the
\* same answer. A list may hold the same card more than once.
CardSeq == <<MkCard("q1", "a"), MkCard("q2", "b"), MkCard("q3", "a")>>
Card == {CardSeq[i] : i \in 1..Len(CardSeq)}

Range(s) == {s[i] : i \in 1..Len(s)}

SeqsUpTo(S, n) == UNION {[1..k -> S] : k \in 0..n}

\* The card lists a caller can hand to the constructor.
CardLists == SeqsUpTo(Card, MaxCards)

\* The list s without its i-th element.
Without(s, i) == SubSeq(s, 1, i - 1) \o SubSeq(s, i + 1, Len(s))

\* random.shuffle(x): every ordering of x is a possible outcome.
RECURSIVE Shuffles(_)
Shuffles(s) ==
    IF s = <<>>
    THEN {<<>>}
    ELSE UNION {{<<s[i]>> \o p : p \in Shuffles(Without(s, i))} : i \in 1..Len(s)}

\* The same, tabulated once for the card lists of the deck documents.
ShuffledList == [s \in CardLists |-> Shuffles(s)]

\* ------------------------------------------------------------------- state
VARIABLES
    \* self.game of FlashcardApp: "None" or "Flashcards"; its fields follow.
    game,
    cards,          \* Flashcards.cards
    index,          \* Flashcards.index
    score,          \* Flashcards.score
    total,          \* Flashcards.total
    missed_cards,   \* Flashcards.missed_cards
    \* FlashcardApp
    decks,          \* self.decks, the paths find_decks returned
    buttons,        \* the widgets of buttons_frame that take input
    title_label,    \* text of title_label
    score_label,    \* text of score_label: <<>> or <<score, total>>
    question_label, \* text of question_label
    last_correct,   \* self.last_correct
    selected_answer,\* self.selected_answer
    messagebox,     \* the message box the last callback showed
    uncaught,       \* the exception that left the last callback uncaught
    mainloop,       \* "running" or "exited"
    \* observations of the run
    \* (of the quiz being played; at their initial values while none is)
    op,             \* the last call made and its argument
    ret,            \* what that call returned or raised
    deck,           \* the list the constructor was given, as it was then
    argList,        \* that list object of the caller, as it is now
    advances,       \* calls of next() in the current pass
    passes,         \* calls of reset_for_review() since construction
    wrongHere,      \* a wrong check() was made at this index in this pass
    wrongAt,        \* the positions where one was made in this pass
    tally,          \* <<right, wrong>> answers the user gave in this pass
    prevTally,      \* tally of the pass before the last reset_for_review()
    loadDoc,        \* the file contents the last load_deck call read
    loadRes,        \* what the last load_deck call returned or raised
    dirListing      \* what the last find_decks call found on the disk

sessionvars == <<cards, index, score, total, missed_cards>>
appvars == <<decks, buttons, title_label, score_label, question_label,
             last_correct, selected_answer, messagebox, uncaught, mainloop>>
loadvars == <<loadDoc, loadRes, dirListing>>
tallyvars == <<tally, prevTally>>
vars == <<game, sessionvars, appvars, op, ret, deck, argList, advances,
          passes, wrongHere, wrongAt, tallyvars, loadvars>>

\* ----------------------------------------------------- deck discovery
\* File names and paths are strings of code points, so sorted() and lower()
\* can be computed: "a.json", "B.JSON", "c.txt".
Names == {<<97, 46, 106, 115, 111, 110>>,
          <<66, 46, 74, 83, 79, 78>>,
          <<99, 46, 116, 120, 116>>}

\* What os.path.isdir and os.listdir find: no directory, or its entries.
Listings == [isdir : {FALSE}, entries : {{}}]
            \cup [isdir : {TRUE}, entries : SUBSET Names]

\* The entries find_decks is called on by itself: the names above, then
\* ".json", "json", "a.jsonx" and "ab.Json".
DirNames == Names \cup {<<46, 106, 115, 111, 110>>,
                        <<106, 115, 111, 110>>,
                        <<97, 46, 106, 115, 111, 110, 120>>,
                        <<97, 98, 46, 74, 115, 111, 110>>}

Dirs == [isdir : {FALSE}, entries : {{}}]
        \cup [isdir : {TRUE}, entries : SUBSET DirNames]

\* No find_decks call has been made.
NoListing == [isdir |-> FALSE, entries |-> {<<>>}]

\* str.lower()
lower(f) == [i \in 1..Len(f) |-> IF f[i] >= 65 /\ f[i] <= 90 THEN f[i] + 32 ELSE f[i]]

\* str.endswith(suffix)
endswith(f, suffix) ==
    /\ Len(f) >= Len(suffix)
    /\ SubSeq(f, Len(f) - Len(suffix) + 1, Len(f)) = suffix

\* os.path.join("decks", f)
join(f) == <<100, 101, 99, 107, 115, 47>> \o f

\* Python's order on str: by code point, a proper prefix first.
RECURSIVE StrLess(_, _)
StrLess(a, b) ==
    IF a = <<>> THEN b # <<>>
    ELSE IF b = <<>> THEN FALSE
    ELSE IF a[1] # b[1] THEN a[1] < b[1]
    ELSE StrLess(Tail(a), Tail(b))

\* sorted(S)
RECURSIVE sorted(_)
sorted(S) ==
    IF S = {} THEN <<>>
    ELSE LET m == CHOOSE x \in S : \A y \in S \ {x} : StrLess(x, y)
         IN  <<m>> \o sorted(S \ {m})

\* find_decks(): the listing is what the file system holds at the call.
find_decks_case_sensitive(listing) ==
    IF ~listing.isdir
    THEN <<>>
    ELSE sorted({join(f) : f \in {g \in listing.entries :
                                    endswith(g, <<46, 106, 115, 111, 110>>)}})

find_decks(listing) ==
    IF ~listing.isdir
    THEN <<>>
    ELSE sorted({join(f) : f \in {g \in listing.entries :
                                    endswith(lower(g), <<46, 106, 115, 111, 110>>)}})

\* ------------------------------------------------------------ deck loading
Titles == {"Capitals"}

\* What open() and json.load() find at a path: a file that cannot be read,
\* one that is not JSON, JSON whose top level is an array, or a JSON object
\* with or without "title" and "cards".
Doc == [kind : {"unreadable", "badjson", "array"},
        hasTitle : {FALSE}, title : {""}, hasCards : {FALSE}, cards : {<<>>}]
       \cup
       {d \in [kind : {"object"}, hasTitle : BOOLEAN, title : Titles \cup {""},
               hasCards : BOOLEAN, cards : CardLists] :
           /\ d.hasTitle <=> d.title # ""
           /\ ~d.hasCards => d.cards = <<>>}

NoDoc == [kind |-> "none", hasTitle |-> FALSE, title |-> "",
          hasCards |-> FALSE, cards |-> <<>>]

Raised(exc, msg) == [status |-> exc, msg |-> msg, title |-> "", cards |-> <<>>]
Returned(t, c) == [status |-> "ok", msg |-> <<>>, title |-> t, cards |-> c]
NoRes == [status |-> "none", msg |-> <<>>, title |-> "", cards |-> <<>>]

\* load_deck(path) on a file holding doc: the outcomes it can have.
load_deck_loses_title(path, doc) ==
    IF doc.kind = "unreadable"
    THEN {Raised("RuntimeError", <<"Failed to load deck", path, "OSError">>)}
    ELSE IF doc.kind = "badjson"
    THEN {Raised("RuntimeError", <<"Failed to load deck", path, "JSONDecodeError">>)}
    ELSE IF doc.kind = "array"
    THEN {Raised("AttributeError", <<"'list' object has no attribute 'get'">>)}
    ELSE LET title == "Untitled Deck"
             c == IF doc.hasCards THEN doc.cards ELSE <<>>
         IN  IF c = <<>>
             THEN {Raised("RuntimeError", <<"Deck contains no cards.">>)}
             ELSE {Returned(title, p) : p \in ShuffledList[c]}

load_deck(path, doc) ==
    IF doc.kind = "unreadable"
    THEN {Raised("RuntimeError", <<"Failed to load deck", path, "OSError">>)}
    ELSE IF doc.kind = "badjson"
    THEN {Raised("RuntimeError", <<"Failed to load deck", path, "JSONDecodeError">>)}
    ELSE IF doc.kind = "array"
    THEN {Raised("AttributeError", <<"'list' object has no attribute 'get'">>)}
    ELSE LET title == IF doc.hasTitle THEN doc.title ELSE "Untitled Deck"
             c == IF doc.hasCards THEN doc.cards ELSE <<>>
         IN  IF c = <<>>
             THEN {Raised("RuntimeError", <<"Deck contains no cards.">>)}
             ELSE {Returned(title, p) : p \in ShuffledList[c]}

NoBox == <<"none", "">>
NoExc == <<"none", <<>>>>

\* ------------------------------------------------------- class Flashcards
\* Flashcards.__init__(cards): self.cards is a copy, cards[:], so the list
\* object of the caller stays as it is.
Flashcards(c) ==
    /\ cards' = c
    /\ argList' = c
    /\ index' = 0
    /\ score' = 0
    /\ total' = Len(c)
    /\ missed_cards' = <<>>

\* Flashcards.has_next()
has_next == index < Len(cards)

\* Flashcards.current(): self.cards[self.index]; IndexError when the index is
\* past the end (the index is never negative).
current_raises == ~(index < Len(cards))
current == cards[index + 1]

\* Flashcards.check(selected); r is what the call returns or raises.
check_wrong_appends(selected, r) ==
    IF current_raises
    THEN /\ r = <<"IndexError">>
         /\ UNCHANGED sessionvars
    ELSE IF selected = current.answer
    THEN /\ score' = score + 1
         /\ r = <<"True">>
         /\ UNCHANGED <<cards, index, total, missed_cards>>
    ELSE /\ missed_cards' = Append(missed_cards, current)
         /\ r = <<"False">>
         /\ UNCHANGED <<cards, index, score, total>>

check_advances(selected, r) ==
    IF current_raises
    THEN /\ r = <<"IndexError">>
         /\ UNCHANGED sessionvars
    ELSE IF selected = current.answer
    THEN /\ score' = score + 1
         /\ index' = index + 1
         /\ r = <<"True">>
         /\ UNCHANGED <<cards, total, missed_cards>>
    ELSE /\ missed_cards' = IF current \in Range(missed_cards)
                            THEN missed_cards
                            ELSE Append(missed_cards, current)
         /\ r = <<"False">>
         /\ UNCHANGED <<cards, index, score, total>>

check_dedupes_by_identity(selected, r) ==
    IF current_raises
    THEN /\ r = <<"IndexError">>
         /\ UNCHANGED sessionvars
    ELSE IF selected = current.answer
    THEN /\ score' = score + 1
         /\ r = <<"True">>
         /\ UNCHANGED <<cards, index, total, missed_cards>>
    ELSE /\ missed_cards' = IF wrongHere
                            THEN missed_cards
                            ELSE Append(missed_cards, current)
         /\ r = <<"False">>
         /\ UNCHANGED <<cards, index, score, total>>

check_complete_returns_false(selected, r) ==
    IF current_raises
    THEN /\ r = <<"False">>
         /\ UNCHANGED sessionvars
    ELSE IF selected = current.answer
    THEN /\ score' = score + 1
         /\ r = <<"True">>
         /\ UNCHANGED <<cards, index, total, missed_cards>>
    ELSE /\ missed_cards' = IF current \in Range(missed_cards)
                            THEN missed_cards
                            ELSE Append(missed_cards, current)
         /\ r = <<"False">>
         /\ UNCHANGED <<cards, index, score, total>>

check_true_misses(selected, r) ==
    IF current_raises
    THEN /\ r = <<"IndexError">>
         /\ UNCHANGED sessionvars
    ELSE IF selected = current.answer
    THEN /\ score' = score + 1
         /\ missed_cards' = IF current \in Range(missed_cards)
                            THEN missed_cards
                            ELSE Append(missed_cards, current)
         /\ r = <<"True">>
         /\ UNCHANGED <<cards, index, total>>
    ELSE /\ missed_cards' = IF current \in Range(missed_cards)
                            THEN missed_cards
                            ELSE Append(missed_cards, current)
         /\ r = <<"False">>
         /\ UNCHANGED <<cards, index, score, total>>

check(selected, r) ==
    IF current_raises
    THEN /\ r = <<"IndexError">>
         /\ UNCHANGED sessionvars
    ELSE IF selected = current.answer
    THEN /\ score' = score + 1
         /\ r = <<"True">>
         /\ UNCHANGED <<cards, index, total, missed_cards>>
    ELSE /\ missed_cards' = IF current \in Range(missed_cards)
                            THEN missed_cards
                            ELSE Append(missed_cards, current)
         /\ r = <<"False">>
         /\ UNCHANGED <<cards, index, score, total>>

\* Flashcards.next()
next_skips ==
    /\ index' = index + 2
    /\ UNCHANGED <<cards, score, total, missed_cards>>

next ==
    /\ index' = index + 1
    /\ UNCHANGED <<cards, score, total, missed_cards>>

\* Flashcards.reset_for_review()
reset_keeps_total ==
    /\ \E p \in Shuffles(missed_cards) : cards' = p
    /\ missed_cards' = <<>>
    /\ index' = 0
    /\ score' = 0
    /\ UNCHANGED total

reset_total_after_clear ==
    /\ \E p \in Shuffles(missed_cards) : cards' = p
    /\ missed_cards' = <<>>
    /\ index' = 0
    /\ score' = 0
    /\ total' = Len(missed_cards')

reset_keeps_missed ==
    /\ \E p \in Shuffles(missed_cards) : cards' = p
    /\ UNCHANGED missed_cards
    /\ index' = 0
    /\ score' = 0
    /\ total' = Len(cards')

reset_keeps_score ==
    /\ \E p \in Shuffles(missed_cards) : cards' = p
    /\ missed_cards' = <<>>
    /\ index' = 0
    /\ UNCHANGED score
    /\ total' = Len(cards')

reset_for_review ==
    /\ \E p \in Shuffles(missed_cards) : cards' = p
    /\ missed_cards' = <<>>
    /\ index' = 0
    /\ score' = 0
    /\ total' = Len(cards')

\* ------------------------------------- a caller of the class, any order
Bump(n) == IF n < MaxPasses THEN n + 1 ELSE n

\* game.current()
Call_current ==
    /\ game = "Flashcards"
    /\ op' = <<"current">>
    /\ ret' = IF current_raises THEN <<"IndexError">> ELSE <<"card", current>>
    /\ UNCHANGED <<game, sessionvars, appvars, deck, argList, advances,
                   passes, wrongHere, wrongAt, tallyvars, loadvars>>

\* game.check(selected)
Call_check(selected) ==
    /\ game = "Flashcards"
    /\ score < MaxScore
    /\ \E r \in {<<"True">>, <<"False">>, <<"IndexError">>} :
          /\ check(selected, r)
          /\ ret' = r
          /\ wrongHere' = (wrongHere \/ r = <<"False">>)
          /\ wrongAt' = IF r = <<"False">> THEN wrongAt \cup {index + 1}
                        ELSE wrongAt
    /\ op' = <<"check", selected>>
    /\ UNCHANGED <<game, appvars, deck, argList, advances, passes, tallyvars,
                   loadvars>>

\* game.next()
Call_next ==
    /\ game = "Flashcards"
    /\ index < MaxIndex
    /\ next
    /\ op' = <<"next">>
    /\ ret' = <<"None">>
    /\ advances' = advances + 1
    /\ wrongHere' = FALSE
    /\ UNCHANGED <<game, appvars, deck, argList, passes, wrongAt, tallyvars,
                   loadvars>>

\* game.reset_for_review()
Call_reset_for_review ==
    /\ game = "Flashcards"
    /\ reset_for_review
    /\ op' = <<"reset_for_review">>
    /\ ret' = <<"None">>
    /\ advances' = 0
    /\ passes' = Bump(passes)
    /\ wrongHere' = FALSE
    /\ wrongAt' = {}
    /\ UNCHANGED <<game, appvars, deck, argList, tallyvars, loadvars>>

\* No FlashcardApp exists in Spec: its fields stay at these values.
NoApp ==
    /\ decks = <<>>
    /\ buttons = {}
    /\ title_label = ""
    /\ score_label = <<>>
    /\ question_label = <<>>
    /\ last_correct = FALSE
    /\ selected_answer = ""
    /\ messagebox = NoBox
    /\ uncaught = NoExc
    /\ mainloop = "exited"
    /\ loadDoc = NoDoc
    /\ loadRes = NoRes
    /\ dirListing = NoListing
    /\ tally = <<0, 0>>
    /\ prevTally = <<0, 0>>

\* The state right after game = Flashcards(c), for any card list c.
Init_shuffles_argument ==
    /\ NoApp
    /\ \E c \in CardLists : \E p \in Shuffles(c) :
          /\ cards = p
          /\ total = Len(c)
          /\ deck = c
          /\ argList = p
    /\ game = "Flashcards"
    /\ index = 0
    /\ score = 0
    /\ missed_cards = <<>>
    /\ op = <<"init">>
    /\ ret = <<"None">>
    /\ advances = 0
    /\ passes = 0
    /\ wrongHere = FALSE
    /\ wrongAt = {}

Init ==
    /\ NoApp
    /\ \E c \in CardLists :
          /\ cards = c
          /\ total = Len(c)
          /\ deck = c
          /\ argList = c
    /\ game = "Flashcards"
    /\ index = 0
    /\ score = 0
    /\ missed_cards = <<>>
    /\ op = <<"init">>
    /\ ret = <<"None">>
    /\ advances = 0
    /\ passes = 0
    /\ wrongHere = FALSE
    /\ wrongAt = {}

Next ==
    \/ Call_current
    \/ \E s \in Answers : Call_check(s)
    \/ Call_next
    \/ Call_reset_for_review

Spec == Init /\ [][Next]_vars

\* ------------------------------------------------- claims on the session
\* How often card c occurs in the list s.
Count(c, s) == Cardinality({i \in 1..Len(s) : s[i] = c})

\* Two lists hold the same cards with the same multiplicities.
SameCards(s, t) == Len(s) = Len(t) /\ \A c \in Card : Count(c, s) = Count(c, t)

\* The step is a call of check(op'[2]) made while has_next().
CheckInProgress == op'[1] = "check" /\ has_next

\* C1: while a card remains, check(selected) with selected equal to the
\* current card's answer returns True, adds exactly 1 to score and leaves
\* missed_cards as it was.
C1_CorrectCheck ==
    [][(CheckInProgress /\ op'[2] = current.answer)
        => /\ ret' = <<"True">>
           /\ score' = score + 1
           /\ missed_cards' = missed_cards]_vars

C1_Witness ==
    /\ op[1] = "check"
    /\ ret = <<"True">>
    /\ score = 2
    /\ Len(missed_cards) = 1

\* C2 as stated: a wrong check returns False and leaves score alone; the
\* first wrong check on the current card appends it to missed_cards and
\* every later one leaves missed_cards unchanged.
C2_FirstWrongAppends ==
    [][(CheckInProgress /\ op'[2] # current.answer)
        => /\ ret' = <<"False">>
           /\ score' = score
           /\ missed_cards' = IF wrongHere
                              THEN missed_cards
                              ELSE Append(missed_cards, current)]_vars

\* C2 as amended: a wrong check returns False and leaves score alone; after
\* it missed_cards holds the current card exactly once: the check appends the
\* card when no value-equal card is in missed_cards and otherwise leaves
\* missed_cards unchanged, as does every later wrong check on the same card.
C2_WrongCheckOnce ==
    [][(CheckInProgress /\ op'[2] # current.answer)
        => /\ ret' = <<"False">>
           /\ score' = score
           /\ Count(current, missed_cards') = 1
           /\ (wrongHere => missed_cards' = missed_cards)
           /\ (Count(current, missed_cards) = 0
                 => missed_cards' = Append(missed_cards, current))
           /\ (Count(current, missed_cards) > 0
                 => missed_cards' = missed_cards)]_vars

\* A wrong check on the second of two value-equal cards, with one entry in
\* missed_cards.
C2_Witness ==
    /\ op[1] = "check"
    /\ ret = <<"False">>
    /\ passes = 0
    /\ index = 1
    /\ Len(cards) >= 2
    /\ cards[1] = cards[2]
    /\ missed_cards = <<cards[2]>>

\* C3: reset_for_review() in a state with m missed cards gives total = m,
\* score = 0, index = 0, no missed cards, and a working list holding the same
\* cards as the previous missed_cards, in any order.
C3_ResetForReview ==
    [][op'[1] = "reset_for_review"
        => /\ total' = Len(missed_cards)
           /\ score' = 0
           /\ index' = 0
           /\ missed_cards' = <<>>
           /\ SameCards(cards', missed_cards)]_vars

C3_Witness ==
    /\ op[1] = "reset_for_review"
    /\ total = 2
    /\ Len(cards) = 2
    /\ Len(deck) = 3
    /\ cards[1] = deck[3]
    /\ cards[2] = deck[1]

\* C4: in a fresh session over n cards, after k calls of next(), with any
\* checks in between, has_next() is true exactly when k < n.
C4_HasNextCountsAdvances ==
    passes = 0 => (has_next <=> advances < Len(deck))

C4_Witness ==
    /\ passes = 0
    /\ Len(deck) = 3
    /\ advances = 3
    /\ score = 1
    /\ Len(missed_cards) = 2
    /\ ~has_next

\* C6: check() never advances: index, total and the working list stay as
\* they were, a match changes score only and a mismatch changes missed_cards
\* only.
C6_CheckFrame ==
    [][CheckInProgress
        => /\ index' = index
           /\ total' = total
           /\ cards' = cards
           /\ ~(score' # score /\ missed_cards' # missed_cards)
           /\ (op'[2] = current.answer => missed_cards' = missed_cards)
           /\ (op'[2] # current.answer => score' = score)]_vars

C6_Witness ==
    /\ op[1] = "check"
    /\ index = 2
    /\ score = 1
    /\ Len(missed_cards) = 1
    /\ has_next

\* ------------------------------------------------------ class FlashcardApp
\* The widgets of buttons_frame that take input.
StartButton == <<"Start">>
NextButton == <<"Next">>
RedoButton == <<"Redo Wrong Answers">>
RestartButton == <<"Restart Deck">>
QuitButton == <<"Quit">>
ChoiceButton(c) == <<"choice", c>>

NoDecksBox == <<"showerror", "No JSON decks found in the 'decks' folder.">>
SelectDeckBox == <<"showwarning", "Please select a deck.">>

\* FlashcardApp.show_results(), on the state the callback has produced.
show_results_always_redo ==
    /\ question_label' = <<"Quiz Complete!", score', total'>>
    /\ buttons' = {RedoButton, RestartButton, QuitButton}

show_results ==
    /\ question_label' = <<"Quiz Complete!", score', total'>>
    /\ buttons' = (IF missed_cards' # <<>> THEN {RedoButton} ELSE {})
                  \cup {RestartButton, QuitButton}

\* FlashcardApp.next_question(), on the state the callback has produced.
next_question_unguarded ==
    IF current_raises'
    THEN /\ uncaught' = <<"IndexError", <<"list index out of range">>>>
         /\ buttons' = {}
         /\ UNCHANGED <<question_label, score_label>>
    ELSE /\ question_label' = <<current'.question>>
         /\ score_label' = <<score', total'>>
         /\ buttons' = {ChoiceButton(c) : c \in Range(current'.choices)}
         /\ uncaught' = NoExc

\* clear_buttons() has run when current() is called: an IndexError there
\* would leave the callback with no button on the screen.
next_question ==
    IF ~has_next'
    THEN /\ show_results
         /\ uncaught' = NoExc
         /\ UNCHANGED score_label
    ELSE IF current_raises'
    THEN /\ uncaught' = <<"IndexError", <<"list index out of range">>>>
         /\ buttons' = {}
         /\ UNCHANGED <<question_label, score_label>>
    ELSE /\ question_label' = <<current'.question>>
         /\ score_label' = <<score', total'>>
         /\ buttons' = {ChoiceButton(c) : c \in Range(current'.choices)}
         /\ uncaught' = NoExc

\* FlashcardApp.show_deck_selector(); quit is what root.quit() leaves of the
\* main loop.
show_deck_selector_keeps_start(listing, quit) ==
    /\ decks' = find_decks(listing)
    /\ question_label' = <<>>
    /\ score_label' = <<>>
    /\ IF decks' = <<>>
       THEN /\ messagebox' = NoDecksBox
            /\ mainloop' = "running"
            /\ buttons' = {StartButton}
            /\ UNCHANGED title_label
       ELSE /\ title_label' = "Select a Deck"
            /\ buttons' = {StartButton}
            /\ messagebox' = NoBox
            /\ UNCHANGED mainloop

show_deck_selector(listing, quit) ==
    /\ decks' = find_decks(listing)
    /\ question_label' = <<>>
    /\ score_label' = <<>>
    /\ IF decks' = <<>>
       THEN /\ messagebox' = NoDecksBox
            /\ mainloop' = quit
            /\ buttons' = {}
            /\ UNCHANGED title_label
       ELSE /\ title_label' = "Select a Deck"
            /\ buttons' = {StartButton}
            /\ messagebox' = NoBox
            /\ UNCHANGED mainloop

\* The documents the user interface is run on: one per multiset of cards,
\* its list in the order of CardSeq. load_deck shuffles the list, so every
\* order still reaches the session. The title goes to title_label and
\* nowhere else, so the documents without one have a single card at most.
\* SpecLoad runs load_deck on every Doc.
CardPos(c) == CHOOSE i \in 1..Len(CardSeq) : CardSeq[i] = c
AppDoc == {d \in Doc :
             /\ \A i, j \in 1..Len(d.cards) :
                   i < j => CardPos(d.cards[i]) <= CardPos(d.cards[j])
             /\ (d.kind = "object" /\ ~d.hasTitle) => Len(d.cards) <= 1}

\* FlashcardApp.start_game(): sel is the listbox selection (0: none), doc what
\* the selected file holds. An exception of load_deck leaves the callback; Tk
\* reports it and the main loop goes on.
start_game ==
    /\ mainloop = "running"
    /\ StartButton \in buttons
    /\ \E sel \in 0..Len(decks) :
       IF sel = 0
       THEN /\ messagebox' = SelectDeckBox
            /\ uncaught' = NoExc
            /\ op' = <<"start_game">>
            /\ ret' = <<"None">>
            /\ UNCHANGED <<game, sessionvars, decks, buttons, title_label,
                           score_label, question_label, last_correct,
                           selected_answer, mainloop, deck, argList,
                           advances, passes, wrongHere, wrongAt,
                           tallyvars>>
       ELSE \E doc \in AppDoc : \E res \in load_deck(decks[sel], doc) :
            /\ messagebox' = NoBox
            /\ IF res.status # "ok"
               THEN /\ uncaught' = <<res.status, res.msg>>
                    /\ op' = <<"start_game">>
                    /\ ret' = <<res.status>>
                    /\ UNCHANGED <<game, sessionvars, decks, buttons,
                                   title_label, score_label, question_label,
                                   last_correct, selected_answer, mainloop,
                                   deck, argList, advances, passes,
                                   wrongHere, wrongAt, tallyvars>>
               ELSE /\ game' = "Flashcards"
                    /\ Flashcards(res.cards)
                    /\ title_label' = res.title
                    /\ next_question
                    /\ op' = <<"init">>
                    /\ ret' = <<"None">>
                    /\ deck' = res.cards
                    /\ advances' = 0
                    /\ passes' = 0
                    /\ wrongHere' = FALSE
                    /\ wrongAt' = {}
                    /\ tally' = <<0, 0>>
                    /\ prevTally' = <<0, 0>>
                    /\ UNCHANGED <<decks, last_correct, selected_answer,
                                   mainloop>>
    /\ UNCHANGED loadvars

\* FlashcardApp.submit_answer(selected), then show_explanation().
submit_answer_keeps_choices(selected) ==
    /\ mainloop = "running"
    /\ ChoiceButton(selected) \in buttons
    /\ selected_answer' = selected
    /\ tally' = IF current_raises THEN tally
                ELSE IF selected = current.answer
                THEN <<tally[1] + 1, tally[2]>>
                ELSE <<tally[1], tally[2] + 1>>
    /\ \E r \in {<<"True">>, <<"False">>, <<"IndexError">>} :
          /\ check(selected, r)
          /\ ret' = r
          /\ wrongHere' = (wrongHere \/ r = <<"False">>)
          /\ wrongAt' = IF r = <<"False">> THEN wrongAt \cup {index + 1}
                        ELSE wrongAt
          /\ IF r = <<"IndexError">>
             THEN /\ uncaught' = <<"IndexError", <<"list index out of range">>>>
                  /\ UNCHANGED <<last_correct, buttons>>
             ELSE /\ last_correct' = (r = <<"True">>)
                  /\ buttons' = buttons \cup {NextButton}
                  /\ uncaught' = NoExc
    /\ op' = <<"check", selected>>
    /\ messagebox' = NoBox
    /\ UNCHANGED <<game, decks, title_label, score_label, question_label,
                   mainloop, deck, argList, advances, passes, prevTally,
                   loadvars>>

submit_answer(selected) ==
    /\ mainloop = "running"
    /\ ChoiceButton(selected) \in buttons
    /\ selected_answer' = selected
    /\ tally' = IF current_raises THEN tally
                ELSE IF selected = current.answer
                THEN <<tally[1] + 1, tally[2]>>
                ELSE <<tally[1], tally[2] + 1>>
    /\ \E r \in {<<"True">>, <<"False">>, <<"IndexError">>} :
          /\ check(selected, r)
          /\ ret' = r
          /\ wrongHere' = (wrongHere \/ r = <<"False">>)
          /\ wrongAt' = IF r = <<"False">> THEN wrongAt \cup {index + 1}
                        ELSE wrongAt
          /\ IF r = <<"IndexError">>
             THEN /\ uncaught' = <<"IndexError", <<"list index out of range">>>>
                  /\ UNCHANGED <<last_correct, buttons>>
             ELSE /\ last_correct' = (r = <<"True">>)
                  /\ buttons' = {NextButton}
                  /\ uncaught' = NoExc
    /\ op' = <<"check", selected>>
    /\ messagebox' = NoBox
    /\ UNCHANGED <<game, decks, title_label, score_label, question_label,
                   mainloop, deck, argList, advances, passes, prevTally,
                   loadvars>>

\* FlashcardApp.advance()
advance ==
    /\ mainloop = "running"
    /\ NextButton \in buttons
    /\ next
    /\ next_question
    /\ op' = <<"next">>
    /\ ret' = <<"None">>
    /\ advances' = advances + 1
    /\ wrongHere' = FALSE
    /\ messagebox' = NoBox
    /\ UNCHANGED <<game, decks, title_label, last_correct, selected_answer,
                   mainloop, deck, argList, passes, wrongAt, tallyvars,
                   loadvars>>

\* FlashcardApp.redo_wrong()
redo_wrong ==
    /\ mainloop = "running"
    /\ RedoButton \in buttons
    /\ reset_for_review
    /\ next_question
    /\ op' = <<"reset_for_review">>
    /\ ret' = <<"None">>
    /\ advances' = 0
    /\ passes' = Bump(passes)
    /\ wrongHere' = FALSE
    /\ wrongAt' = {}
    /\ prevTally' = tally
    /\ tally' = <<0, 0>>
    /\ messagebox' = NoBox
    /\ UNCHANGED <<game, decks, title_label, last_correct, selected_answer,
                   mainloop, deck, argList, loadvars>>

\* The Restart Deck button: show_deck_selector() inside the main loop, where
\* root.quit() ends the loop. The old game object stays in self.game; the
\* observations of the quiz that was played start afresh.
restart_deck ==
    /\ mainloop = "running"
    /\ RestartButton \in buttons
    /\ \E listing \in Listings : show_deck_selector(listing, "exited")
    /\ op' = <<"show_deck_selector">>
    /\ ret' = <<"None">>
    /\ uncaught' = NoExc
    /\ deck' = <<>>
    /\ argList' = <<>>
    /\ advances' = 0
    /\ passes' = 0
    /\ wrongHere' = FALSE
    /\ wrongAt' = {}
    /\ tally' = <<0, 0>>
    /\ prevTally' = <<0, 0>>
    /\ UNCHANGED <<game, sessionvars, last_correct, selected_answer, loadvars>>

\* The Quit button: root.quit()
quit ==
    /\ mainloop = "running"
    /\ QuitButton \in buttons
    /\ mainloop' = "exited"
    /\ op' = <<"quit">>
    /\ ret' = <<"None">>
    /\ messagebox' = NoBox
    /\ uncaught' = NoExc
    /\ UNCHANGED <<game, sessionvars, decks, buttons, title_label,
                   score_label, question_label, last_correct,
                   selected_answer, deck, argList, advances, passes,
                   wrongHere, wrongAt,
                   tallyvars, loadvars>>

\* The state FlashcardApp.__init__ leaves when root.mainloop() is entered:
\* no game, and show_deck_selector() has run once. With no deck found it has
\* called root.quit() before the main loop started; whether the loop then runs
\* is Tk's affair, and both outcomes are kept.
InitApp ==
    /\ game = "None"
    /\ cards = <<>>
    /\ index = 0
    /\ score = 0
    /\ total = 0
    /\ missed_cards = <<>>
    /\ last_correct = FALSE
    /\ selected_answer = ""
    /\ question_label = <<>>
    /\ score_label = <<>>
    /\ \E listing \in Listings :
          /\ decks = find_decks(listing)
          /\ IF decks = <<>>
             THEN /\ messagebox = NoDecksBox
                  /\ mainloop \in {"running", "exited"}
                  /\ buttons = {}
                  /\ title_label = ""
             ELSE /\ title_label = "Select a Deck"
                  /\ buttons = {StartButton}
                  /\ messagebox = NoBox
                  /\ mainloop = "running"
    /\ uncaught = NoExc
    /\ op = <<"show_deck_selector">>
    /\ ret = <<"None">>
    /\ deck = <<>>
    /\ argList = <<>>
    /\ advances = 0
    /\ passes = 0
    /\ wrongHere = FALSE
    /\ wrongAt = {}
    /\ tally = <<0, 0>>
    /\ prevTally = <<0, 0>>
    /\ loadDoc = NoDoc
    /\ loadRes = NoRes
    /\ dirListing = NoListing

NextApp ==
    \/ start_game
    \/ \E s \in Answers : submit_answer(s)
    \/ advance
    \/ redo_wrong
    \/ restart_deck
    \/ quit

SpecApp == InitApp /\ [][NextApp]_vars

\* ------------------------------------------------- load_deck on its own
\* The paths find_decks can return.
Paths == UNION {Range(find_decks(l)) : l \in Listings}

\* load_deck(path) on a file holding doc
Call_load_deck(path, doc) ==
    /\ \E res \in load_deck(path, doc) :
          /\ loadDoc' = doc
          /\ loadRes' = res
          /\ ret' = <<res.status>>
    /\ op' = <<"load_deck", path>>
    /\ UNCHANGED <<game, sessionvars, appvars, deck, argList, advances,
                   passes, wrongHere, wrongAt, tallyvars, dirListing>>

\* No session and no FlashcardApp: load_deck has not been called yet.
InitLoad ==
    /\ NoApp
    /\ game = "None"
    /\ cards = <<>>
    /\ index = 0
    /\ score = 0
    /\ total = 0
    /\ missed_cards = <<>>
    /\ deck = <<>>
    /\ argList = <<>>
    /\ op = <<"none">>
    /\ ret = <<"None">>
    /\ advances = 0
    /\ passes = 0
    /\ wrongHere = FALSE
    /\ wrongAt = {}

NextLoad == \E path \in Paths, doc \in Doc : Call_load_deck(path, doc)

SpecLoad == InitLoad /\ [][NextLoad]_vars

\* ------------------------------------------------ find_decks on its own
\* find_decks() with the disk holding listing
Call_find_decks(listing) ==
    /\ decks' = find_decks(listing)
    /\ dirListing' = listing
    /\ op' = <<"find_decks">>
    /\ ret' = <<"list">>
    /\ UNCHANGED <<game, sessionvars, buttons, title_label, score_label,
                   question_label, last_correct, selected_answer, messagebox,
                   uncaught, mainloop, deck, argList, advances, passes,
                   wrongHere, wrongAt, tallyvars, loadDoc, loadRes>>

NextFind == \E listing \in Dirs : Call_find_decks(listing)

SpecFind == InitLoad /\ [][NextFind]_vars

\* ------------------------------------------------ claims on the loading
\* C7 as stated: load_deck raises RuntimeError for every file that cannot be
\* read, every file that cannot be parsed as the deck document and every
\* document whose cards are absent or empty, and it never returns an empty
\* card list.
C7_LoadErrorOnEveryBadFile ==
    /\ (loadDoc.kind \in {"unreadable", "badjson", "array"}
          \/ (loadDoc.kind = "object" /\ loadDoc.cards = <<>>))
        => loadRes.status = "RuntimeError"
    /\ loadRes.status = "ok" => loadRes.cards # <<>>

\* C10: a successful load_deck returns the document's title, or
\* "Untitled Deck" when the document has none, and a card list holding the
\* document's cards with the same multiplicities.
C10_LoadedTitleAndCards ==
    loadRes.status = "ok"
        => /\ loadDoc.kind = "object"
           /\ loadRes.title = (IF loadDoc.hasTitle THEN loadDoc.title
                               ELSE "Untitled Deck")
           /\ SameCards(loadRes.cards, loadDoc.cards)

\* A document without title whose three cards come back in another order.
C10_Witness ==
    /\ loadRes.status = "ok"
    /\ ~loadDoc.hasTitle
    /\ loadRes.title = "Untitled Deck"
    /\ Len(loadDoc.cards) = 3
    /\ loadRes.cards # loadDoc.cards

\* ------------------------------------------- claims on the user interface
Distinct(s) == \A i, j \in 1..Len(s) : i # j => s[i] # s[j]

\* C5: a deck of n pairwise different cards, one answer per card: with k
\* right answers the first pass ends with score = k and n - k missed cards;
\* after reset_for_review() and a review pass with every answer right,
\* score = n - k, total = n - k and missed_cards is empty.
C5_EndToEnd ==
    (game = "Flashcards" /\ Distinct(deck) /\ ~has_next /\ op = <<"next">>)
        => /\ passes = 0
                => /\ score = tally[1]
                   /\ Len(missed_cards) = Len(deck) - tally[1]
           /\ (passes = 1 /\ tally[2] = 0)
                => /\ score = Len(deck) - prevTally[1]
                   /\ total = Len(deck) - prevTally[1]
                   /\ missed_cards = <<>>

\* Three cards, one right and two wrong, then both right in the review.
C5_Witness ==
    /\ game = "Flashcards"
    /\ Len(deck) = 3
    /\ Distinct(deck)
    /\ passes = 1
    /\ prevTally = <<1, 2>>
    /\ tally = <<2, 0>>
    /\ ~has_next
    /\ op = <<"next">>
    /\ score = 2
    /\ total = 2
    /\ missed_cards = <<>>

\* The step is a start_game() in which load_deck raised.
StartFailed == op' = <<"start_game">> /\ ret' # <<"None">>

\* C8 as stated: when Start is pressed and load_deck fails, the deck
\* selection stays, the game is unchanged, and the failure is shown to the
\* user with its cause text.
C8_LoadFailureShown ==
    [][StartFailed
        => /\ StartButton \in buttons'
           /\ decks' = decks
           /\ game' = game
           /\ UNCHANGED sessionvars
           /\ messagebox'[1] = "showerror"
           /\ messagebox'[2] = uncaught'[2]]_vars

\* C9: when the deck selector is shown and find_decks returns nothing, the
\* error box is shown, no Start button or any other button is offered, and no
\* callback runs afterwards: no session is created or started.
C9_NoDecksNoAction ==
    /\ [](decks = <<>> => (messagebox = NoDecksBox /\ buttons = {}))
    /\ [][decks # <<>>]_vars

\* Restart Deck after a game, with no deck left in the folder.
C9_Witness ==
    /\ decks = <<>>
    /\ game = "Flashcards"
    /\ op = <<"show_deck_selector">>
    /\ mainloop = "exited"

\* ----------------------------------------------- claims on deck discovery
\* The names of DirNames that end in ".json", whatever the case of the
\* letters: ".json", "B.JSON", "a.json", "ab.Json".
JsonNames == {<<46, 106, 115, 111, 110>>,
              <<66, 46, 74, 83, 79, 78>>,
              <<97, 46, 106, 115, 111, 110>>,
              <<97, 98, 46, 74, 115, 111, 110>>}

\* The entry name of a path of the decks directory.
NameOf(path) == SubSeq(path, 7, Len(path))

\* C11: find_decks returns the empty list when the decks directory does not
\* exist; otherwise it returns the path of every entry whose name has the
\* .json extension and of no other entry, each once, in ascending order of
\* the names.
C11_FindDecks ==
    op = <<"find_decks">>
        => /\ ret = <<"list">>
           /\ ~dirListing.isdir => decks = <<>>
           /\ dirListing.isdir
                => /\ Range(decks) = {join(f) : f \in dirListing.entries
                                                        \cap JsonNames}
                   /\ Distinct(decks)
                   /\ \A i \in 1..(Len(decks) - 1) :
                          StrLess(NameOf(decks[i]), NameOf(decks[i + 1]))

\* Every name in the directory: four paths come back, "B.JSON" before
\* "a.json".
C11_Witness ==
    /\ op = <<"find_decks">>
    /\ dirListing.isdir
    /\ dirListing.entries = DirNames
    /\ Len(decks) = 4
    /\ decks[2] = join(<<66, 46, 74, 83, 79, 78>>)
    /\ decks[3] = join(<<97, 46, 106, 115, 111, 110>>)

\* ------------------------------------------- further claims on the session
\* C12: in every state a caller can reach by constructing a session and
\* calling check, next and reset_for_review, total is the length of the
\* working list, so has_next() is true exactly when index < total.
C12_TotalIsLength ==
    game = "Flashcards"
        => /\ total = Len(cards)
           /\ has_next <=> index < total

\* The end of a review pass over two of three cards.
C12_Witness ==
    /\ passes = 1
    /\ Len(deck) = 3
    /\ total = 2
    /\ Len(cards) = 2
    /\ index = 2
    /\ ~has_next

\* C13: missed_cards never holds two equal cards: a card answered wrong in
\* this pass is in missed_cards exactly once, also when an equal card at
\* another position was answered wrong too, and the review pass that
\* reset_for_review() starts holds it exactly once.
C13_MissedCardsDistinct ==
    /\ [](/\ Distinct(missed_cards)
          /\ \A i \in wrongAt : Count(cards[i], missed_cards) = 1)
    /\ [][op'[1] = "reset_for_review"
            => \A i \in wrongAt : Count(cards[i], cards') = 1]_vars

\* Two equal cards, both answered wrong: one missed card.
C13_Witness ==
    /\ passes = 0
    /\ Len(cards) = 2
    /\ cards[1] = cards[2]
    /\ wrongAt = {1, 2}
    /\ Len(missed_cards) = 1
    /\ ~has_next

\* C15: once index >= total, also in a session over no cards, current() and
\* check(selected) raise IndexError and leave index, score, total, the
\* working list and missed_cards as they were.
C15_CompleteRaises ==
    [][(op'[1] \in {"current", "check"} /\ index >= total)
        => /\ ret' = <<"IndexError">>
           /\ UNCHANGED sessionvars]_vars

\* check() on the empty review pass that follows a pass with no mistake.
C15_Witness ==
    /\ op[1] = "check"
    /\ ret = <<"IndexError">>
    /\ passes = 1
    /\ total = 0
    /\ index = 0
    /\ Len(deck) = 2

\* C16: whatever check, next and reset_for_review calls are made, the list
\* the caller gave to the constructor holds the cards it held then, in the
\* same order.
C16_DeckNotMutated ==
    game = "Flashcards" => argList = deck

\* A review pass whose working list differs from the caller's list.
C16_Witness ==
    /\ passes = 1
    /\ Len(deck) = 3
    /\ argList = deck
    /\ Len(cards) = 2
    /\ cards[1] = deck[3]
    /\ index = 1

\* ----------------------------------- further claims on the user interface
\* The results screen is shown.
ResultsScreen == RestartButton \in buttons

\* C14: the user interface calls reset_for_review() only from the results
\* screen of a finished pass and only when missed_cards is not empty, so
\* every review pass it starts has at least one card.
C14_RedoOnlyWithMisses ==
    /\ [][op'[1] = "reset_for_review"
            => /\ ResultsScreen
               /\ index >= total
               /\ missed_cards # <<>>
               /\ total' >= 1]_vars
    /\ [](passes >= 1 => total >= 1)

\* The second review pass, over one card.
C14_Witness ==
    /\ op[1] = "reset_for_review"
    /\ passes = 2
    /\ total = 1
    /\ Len(deck) = 3

\* C17: the callbacks call current() and check() only while index < total:
\* the answer buttons and the Next button of the explanation are on the
\* screen only then, and no callback ends in IndexError.
C17_NoIndexErrorFromUI ==
    /\ ret # <<"IndexError">>
    /\ uncaught[1] # "IndexError"
    /\ (\E c \in Answers : ChoiceButton(c) \in buttons) => index < total
    /\ NextButton \in buttons => index < total

\* The last card of a review pass has been answered.
C17_Witness ==
    /\ op[1] = "check"
    /\ ret = <<"False">>
    /\ passes = 1
    /\ total = 2
    /\ index = 1
    /\ NextButton \in buttons

\* C18: through the callbacks every card gets one check() per pass at most,
\* so 0 <= score <= total and 0 <= index <= total, the score shown never
\* exceeds the total shown, and index = total on the results screen.
C18_OneCheckPerCard ==
    game = "Flashcards"
        => /\ 0 <= score /\ score <= total
           /\ 0 <= index /\ index <= total
           /\ score_label # <<>> => score_label[1] <= score_label[2]
           /\ (\E c \in Answers : ChoiceButton(c) \in buttons)
                => tally[1] + tally[2] = index
           /\ NextButton \in buttons => tally[1] + tally[2] = index + 1
           /\ ResultsScreen
                => /\ index = total
                   /\ tally[1] + tally[2] = total
                   /\ question_label = <<"Quiz Complete!", score, total>>

\* The results screen after three right answers.
C18_Witness ==
    /\ ResultsScreen
    /\ passes = 0
    /\ tally = <<3, 0>>
    /\ score = 3
    /\ total = 3
    /\ index = 3

\* C19: a review pass is never longer than the pass before it, and shorter
\* when a card of that pass was answered right; after a pass with every
\* answer right the results screen offers no Redo.
C19_ReviewShrinks ==
    /\ [][op'[1] = "reset_for_review"
            => /\ total' <= total
               /\ tally[1] >= 1 => total' < total]_vars
    /\ []((ResultsScreen /\ tally[2] = 0) => RedoButton \notin buttons)

\* Three cards, then two, then one.
C19_Witness ==
    /\ op[1] = "reset_for_review"
    /\ Len(deck) = 3
    /\ passes = 2
    /\ prevTally = <<1, 1>>
    /\ total = 1

====
